---- MODULE Spec2Model ----
(***************************************************************************)
(* Model of backend/python/pagination_scraper.py: the pagination link      *)
(* detector find_pagination_links, the crawl loop scrape_with_pagination   *)
(* with the merge of the pages' structured data, and the fetch function    *)
(* scrape_single_page, whose body backend/python/scraper.py repeats as     *)
(* scrape_url.                                                             *)
(*                                                                         *)
(* Strings are sequences of tokens: a URL or an href is a sequence such as *)
(* <<"http://x.test", "/list", "?page=2">>, an anchor text a sequence of   *)
(* lower-case words.  str.replace, str.split and equality are computed on  *)
(* these sequences; no token is a substring of another one, so the token   *)
(* level agrees with the character level.  An HTML document is a sequence  *)
(* of well-formed <a>, <button> and <form> elements; what each regular     *)
(* expression of the source extracts from such a document is computed from *)
(* the elements' attributes and their order inside the tag.                *)
(***************************************************************************)
EXTENDS Integers, Sequences, FiniteSets, TLC

VARIABLES
    pc,                 \* where the running function stands
    CRAWL4AI_AVAILABLE, \* whether the import of the renderer succeeded
    max_pages,          \* argument of scrape_with_pagination
    visited_urls,       \* local of scrape_with_pagination
    all_results,        \* local: the data of the pages rendered so far
    current_url,        \* local: the next URL to render, or None
    pages_scraped,      \* local
    result,             \* what the function returned, None before it returns
    html,               \* the HTML the detector was last given
    base_url,           \* the base URL the detector was last given
    pagination_links,   \* what the detector last returned
    fetch_log,          \* the URLs the renderer was invoked on, in order
    slept,              \* asyncio.sleep returned since the last render
    fn,                 \* the fetch function running: scrape_single_page
                        \* or scrape_url
    crawler,            \* local of the fetch function: None or the handle
    aexit_calls,        \* how often crawler.__aexit__ was invoked
    cleanup_logged,     \* how often the cleanup error was printed
    escaped,            \* an exception left the fetch function
    pending,            \* the value a return statement of the fetch function
                        \* holds while its finally block runs
    combined_json       \* local of scrape_with_pagination (lines 420-436)

\* the variables of one fetch
fetchVars == <<fn, crawler, aexit_calls, cleanup_logged, escaped, pending>>

vars == <<pc, CRAWL4AI_AVAILABLE, max_pages, visited_urls, all_results,
          current_url, pages_scraped, result, html, base_url,
          pagination_links, fetch_log, slept, fetchVars, combined_json>>

(* ------------------------------ bounds --------------------------------- *)

\* longest HTML document handed to the detector on its own
MaxElems == 4
\* longest HTML document a rendered page of a crawl holds
MaxPageElems == 2
\* largest max_pages argument of a crawl
MaxPagesArg == 3

\* pages whose structured data are combined
MaxMergePages == 3

(* ------------------------- strings and URLs ---------------------------- *)

None == <<"None">>

Host == "http://x.test"

PathToks == {"/list", "/about", "/next"}

QueryToks == {"?page=1", "?page=2", "?page=3", "?page=4", "?q=a"}

\* tokens matched by [?&]page=\d+
PageParamToks == {"?page=1", "?page=2", "?page=3", "?page=4", "&page=2"}

Digits == {"1", "2", "3", "15"}

\* int(link_text_clean)
IntOf(w) ==
    CASE w = "1" -> 1 [] w = "2" -> 2 [] w = "3" -> 3 [] w = "15" -> 15

\* s[i..j] of a sequence
Slice(s, i, j) == [k \in 1..(j - i + 1) |-> s[i + k - 1]]

\* whether the sequence old occurs in s at position i
OccursAt(s, old, i) ==
    /\ i + Len(old) - 1 <= Len(s)
    /\ \A k \in 1..Len(old) : s[i + k - 1] = old[k]

RECURSIVE ReplaceFrom(_, _, _)
ReplaceFrom(s, old, i) ==
    IF i > Len(s) THEN <<>>
    ELSE IF OccursAt(s, old, i) THEN ReplaceFrom(s, old, i + Len(old))
    ELSE <<s[i]>> \o ReplaceFrom(s, old, i + 1)

\* s.replace(old, ''): every non-overlapping occurrence removed, left to right
StrReplaceEmpty(s, old) ==
    IF old = <<>> THEN s ELSE ReplaceFrom(s, old, 1)

\* s.split('?')[0]: the part of s before its first '?'
SplitQuery(s) ==
    IF \E i \in 1..Len(s) : s[i] \in QueryToks
    THEN LET i == CHOOSE i \in 1..Len(s) :
                    /\ s[i] \in QueryToks
                    /\ \A j \in 1..(i - 1) : s[j] \notin QueryToks
         IN  Slice(s, 1, i - 1)
    ELSE s

\* s.split('#')[0]: the part of s before its first '#'
SplitFragment(s) ==
    IF \E i \in 1..Len(s) : s[i] = "#"
    THEN LET i == CHOOSE i \in 1..Len(s) :
                    /\ s[i] = "#"
                    /\ \A j \in 1..(i - 1) : s[j] # "#"
         IN  Slice(s, 1, i - 1)
    ELSE s

\* urllib.parse.urljoin(base, href) on absolute, root-relative, query-only
\* and fragment-only references
urljoin(base, href) ==
    IF href = <<>> THEN base
    ELSE IF href[1] = Host THEN href
    ELSE IF href[1] \in PathToks THEN <<Host>> \o href
    ELSE IF href[1] \in QueryToks THEN SplitQuery(SplitFragment(base)) \o href
    ELSE SplitFragment(base)

(* ------------------------------ HTML ----------------------------------- *)

\* <a ATTRS>text</a>.  rel and cls tell whether the tag carries rel="next",
\* and a class holding next|pagination|pager|nav, and on which side of href.
Anchor(href, text, rel, cls) ==
    [kind |-> "a", href |-> href, text |-> text, rel |-> rel, cls |-> cls,
     value |-> "absent"]

\* <button onclick="ONCLICK">text</button>; href holds the onclick tokens
Button(onclick, text) ==
    [kind |-> "button", href |-> onclick, text |-> text, rel |-> "none",
     cls |-> "none", value |-> "absent"]

\* <form action="ACTION"><input name="page" value="VALUE"></form>, or a form
\* with no input named page when value is "absent"
Form(action, value) ==
    [kind |-> "form", href |-> action, text |-> <<>>, rel |-> "none",
     cls |-> "none", value |-> value]

\* the elements the HTML documents of the model are built from
Elements ==
    { Anchor(<<"?page=3">>, <<"3">>, "none", "none"),
      Anchor(<<"?page=2">>, <<"2">>, "none", "none"),
      Anchor(<<"?page=2">>, <<"next">>, "before", "none"),
      Anchor(<<"?page=1">>, <<"next">>, "after", "none"),
      Anchor(<<"/list">>, <<"next", "page">>, "none", "none"),
      Anchor(<<"?page=4">>, <<"load", "more", "items">>, "none", "before"),
      Anchor(<<"?page=1">>, <<"current">>, "none", "before"),
      Anchor(<<"/next">>, <<"15">>, "none", "after"),
      Button(<<"location.href=", "'", "/list", "'">>, <<"load", "more">>),
      Form(<<"/list">>, "2"),
      Form(<<"/next", "?q=a">>, "absent") }

RECURSIVE SeqsUpTo(_, _)
SeqsUpTo(S, n) ==
    IF n = 0 THEN {<<>>}
    ELSE LET shorter == SeqsUpTo(S, n - 1)
         IN  shorter \cup {Append(h, e) : h \in shorter, e \in S}

BaseUrls == { <<Host, "/list">>, <<Host, "/list", "?page=2">> }

(* ---------------------- find_pagination_links -------------------------- *)

\* The keyword patterns, in the order of the source, one word per token:
\* \s* separates the words and "\\d+" stands for a run of digits.
PAGINATION_PATTERNS ==
    << <<"next", "page">>, <<"next", ">">>, <<">", "next">>, <<"continue">>,
       <<"load", "more">>, <<"view", "more">>, <<"more", "results">>,
       <<"show", "more">>, <<"see", "more">>, <<"pagination">>,
       <<"next", "\\d+">>, <<"siguiente">>, <<"suivant">>, <<"weiter">> >>

WordMatches(p, w) == IF p = "\\d+" THEN w \in Digits ELSE w = p

\* re.search(pattern, text)
PatternSearch(pattern, text) ==
    \E i \in 1..Len(text) :
        /\ i + Len(pattern) - 1 <= Len(text)
        /\ \A k \in 1..Len(pattern) : WordMatches(pattern[k], text[i + k - 1])

\* pattern.replace(r'\s*', ' ').replace(r'\d+', '').strip()
PatternLiteral(pattern) == SelectSeq(pattern, LAMBDA p : p # "\\d+")

\* lines 215-221: +10 for the first pattern found in the text, +5 more when
\* the text is that pattern
KeywordScore(text) ==
    IF \E n \in 1..Len(PAGINATION_PATTERNS) :
           PatternSearch(PAGINATION_PATTERNS[n], text)
    THEN LET n == CHOOSE n \in 1..Len(PAGINATION_PATTERNS) :
                    /\ PatternSearch(PAGINATION_PATTERNS[n], text)
                    /\ \A m \in 1..(n - 1) :
                           ~PatternSearch(PAGINATION_PATTERNS[m], text)
         IN  10 + (IF text = PatternLiteral(PAGINATION_PATTERNS[n])
                   THEN 5 ELSE 0)
    ELSE 0

\* lines 224-232: +8 for a text that is one number, +3 more for 2..10
NumericScore(text) ==
    IF Len(text) = 1 /\ text[1] \in Digits
    THEN 8 + (IF 2 <= IntOf(text[1]) /\ IntOf(text[1]) <= 10 THEN 3 ELSE 0)
    ELSE 0

\* lines 235-249: +5 for an href that looks like a page address
UrlPatternScore(href) ==
    IF \E i \in 1..Len(href) : href[i] \in PageParamToks \cup {"/next"}
    THEN 5 ELSE 0

\* lines 252-254: +15 when some anchor tag of the document has rel="next"
\* followed by an href attribute with this value
RelNextScore(doc, href) ==
    IF \E j \in 1..Len(doc) :
           doc[j].kind = "a" /\ doc[j].rel = "before" /\ doc[j].href = href
    THEN 15 ELSE 0

\* lines 257-259: +7 when some anchor tag of the document has a navigation
\* class followed by an href attribute with this value
ClassScore(doc, href) ==
    IF \E j \in 1..Len(doc) :
           doc[j].kind = "a" /\ doc[j].cls = "before" /\ doc[j].href = href
    THEN 7 ELSE 0

\* lines 212-259: the confidence of one anchor of the document
AnchorConfidence(doc, e) ==
    KeywordScore(e.text) + NumericScore(e.text) + UrlPatternScore(e.href)
        + RelNextScore(doc, e.href) + ClassScore(doc, e.href)

\* lines 262-276
ExcludeWords == {"current", "active", "disabled"}

ExcludeToks == {"javascript:", "mailto:", "tel:", "#"}

should_exclude(e) ==
    \/ \E i \in 1..Len(e.href) : e.href[i] \in ExcludeToks
    \/ \E i \in 1..Len(e.text) : e.text[i] \in ExcludeWords

CandidateUrls(cands) == {cands[i].url : i \in 1..Len(cands)}

IndexOfUrl(cands, u) == CHOOSE i \in 1..Len(cands) : cands[i].url = u

Max(a, b) == IF a >= b THEN a ELSE b

\* lines 204-285: what one anchor does to pagination_candidates, a dict kept
\* as the sequence of its (url, confidence) items in insertion order
AnchorStep(cands, doc, base, e) ==
    LET confidence == AnchorConfidence(doc, e)
        full_url == urljoin(base, e.href)
    IN  IF e.href = <<>> THEN cands
        ELSE IF should_exclude(e) \/ confidence <= 0 THEN cands
        ELSE IF full_url # base /\ full_url \notin CandidateUrls(cands)
        THEN Append(cands, [url |-> full_url, confidence |-> confidence])
        ELSE IF full_url \in CandidateUrls(cands)
        THEN LET i == IndexOfUrl(cands, full_url)
             IN  [cands EXCEPT ![i].confidence = Max(@, confidence)]
        ELSE cands

RECURSIVE Strategy1(_, _, _, _)
\* lines 200-285: the anchors of the document from the i-th element on
Strategy1(cands, doc, base, i) ==
    IF i > Len(doc) THEN cands
    ELSE IF doc[i].kind = "a"
    THEN Strategy1(AnchorStep(cands, doc, base, doc[i]), doc, base, i + 1)
    ELSE Strategy1(cands, doc, base, i + 1)

Quotes == {"'", "\""}

\* line 288: the onclick group ["\']([^"\']*)["\'] ends at the first quote
\* of either kind
OnclickAttr(onclick) ==
    IF \E i \in 1..Len(onclick) : onclick[i] \in Quotes
    THEN LET i == CHOOSE i \in 1..Len(onclick) :
                    /\ onclick[i] \in Quotes
                    /\ \A j \in 1..(i - 1) : onclick[j] \notin Quotes
         IN  Slice(onclick, 1, i - 1)
    ELSE onclick

\* line 298: (?:location\.href|window\.location)\s*=\s*["\']([^"\']+)["\']
UrlMatch(attr) ==
    LET hits == { <<i, j>> \in (1..Len(attr)) \X (1..Len(attr)) :
                    /\ attr[i] \in {"location.href=", "window.location="}
                    /\ i + 1 <= Len(attr) /\ attr[i + 1] \in Quotes
                    /\ j > i + 2 /\ attr[j] \in Quotes
                    /\ \A k \in (i + 2)..(j - 1) : attr[k] \notin Quotes }
    IN  IF hits = {} THEN None
        ELSE LET h == CHOOSE h \in hits : \A g \in hits : h[1] <= g[1]
             IN  Slice(attr, h[1] + 2, h[2] - 1)

\* lines 291-303: what one button does to pagination_candidates
ButtonStep(cands, base, e) ==
    LET url_match == UrlMatch(OnclickAttr(e.href))
        full_url == urljoin(base, url_match)
    IN  IF KeywordScore(e.text) > 0 /\ url_match # None
           /\ full_url \notin CandidateUrls(cands)
        THEN Append(cands, [url |-> full_url, confidence |-> 8])
        ELSE cands

RECURSIVE Strategy2(_, _, _, _)
\* lines 287-303
Strategy2(cands, doc, base, i) ==
    IF i > Len(doc) THEN cands
    ELSE IF doc[i].kind = "button"
    THEN Strategy2(ButtonStep(cands, base, doc[i]), doc, base, i + 1)
    ELSE Strategy2(cands, doc, base, i + 1)

\* '?' in action
HasQuery(action) == \E i \in 1..Len(action) : action[i] \in QueryToks

\* f"{action}{separator}page={page_value}"
PageParam(separator, page_value) ==
    CASE separator = "?" /\ page_value = "2" -> "?page=2"
      [] separator = "&" /\ page_value = "2" -> "&page=2"

\* str.isdigit() of a page value
IsDigit(page_value) == page_value \in Digits

\* lines 309-315: what one (action, page_value) match does
FormStep(cands, base, action, page_value) ==
    IF page_value # "" /\ IsDigit(page_value)
    THEN LET separator == IF HasQuery(action) THEN "&" ELSE "?"
             full_url == urljoin(base,
                             action \o <<PageParam(separator, page_value)>>)
         IN  IF full_url \notin CandidateUrls(cands)
             THEN Append(cands, [url |-> full_url, confidence |-> 6])
             ELSE cands
    ELSE cands

RECURSIVE Strategy3(_, _, _, _)
\* lines 305-315: re.findall of form_pattern from the i-th element on.  A
\* match starts at the next <form action=...> and, '.*?' crossing element
\* borders, takes the value of the next input named page, which may sit in
\* a later form; the scan goes on behind that form.
Strategy3(cands, doc, base, i) ==
    IF i > Len(doc) THEN cands
    ELSE IF doc[i].kind # "form" THEN Strategy3(cands, doc, base, i + 1)
    ELSE IF \E j \in i..Len(doc) :
                doc[j].kind = "form" /\ doc[j].value # "absent"
    THEN LET j == CHOOSE j \in i..Len(doc) :
                    /\ doc[j].kind = "form" /\ doc[j].value # "absent"
                    /\ \A k \in i..(j - 1) :
                           ~(doc[k].kind = "form" /\ doc[k].value # "absent")
         IN  Strategy3(FormStep(cands, base, doc[i].href, doc[j].value),
                       doc, base, j + 1)
    ELSE cands

\* lines 195-315: pagination_candidates when the three scans are done
pagination_candidates(doc, base) ==
    Strategy3(Strategy2(Strategy1(<<>>, doc, base, 1), doc, base, 1),
              doc, base, 1)

RECURSIVE InsertTiesFirst(_, _)
\* c put in front of the items of equal confidence: a sort that is not stable
InsertTiesFirst(sorted, c) ==
    IF sorted = <<>> THEN <<c>>
    ELSE IF Head(sorted).confidence > c.confidence
    THEN <<Head(sorted)>> \o InsertTiesFirst(Tail(sorted), c)
    ELSE <<c>> \o sorted

RECURSIVE InsertSorted(_, _)
\* c put behind every item of the sorted sequence whose confidence is not
\* smaller: the place a stable descending sort gives a later item
InsertSorted(sorted, c) ==
    IF sorted = <<>> THEN <<c>>
    ELSE IF Head(sorted).confidence >= c.confidence
    THEN <<Head(sorted)>> \o InsertSorted(Tail(sorted), c)
    ELSE <<c>> \o sorted

RECURSIVE SortFrom(_, _, _)
SortFrom(sorted, cands, i) ==
    IF i > Len(cands) THEN sorted
    ELSE SortFrom(InsertSorted(sorted, cands[i]), cands, i + 1)

\* the candidates left in insertion order
unsorted_candidates(cands) == cands

\* line 318: sorted(items, key=confidence, reverse=True), a stable sort
sorted_candidates(cands) == SortFrom(<<>>, cands, 1)

\* sorted_candidates[:3]
TopN == 3

TopCandidates(sorted) ==
    SubSeq(sorted, 1, IF Len(sorted) < TopN THEN Len(sorted) ELSE TopN)

\* line 321
MinConfidence == 5

\* lines 317-321: the top three of the ranking, those under 5 dropped
RankedUrls(cands) ==
    LET top == SelectSeq(TopCandidates(sorted_candidates(cands)),
                         LAMBDA c : c.confidence >= MinConfidence)
    IN  [i \in 1..Len(top) |-> top[i].url]

\* lines 184-321
find_pagination_links(doc, base) ==
    RankedUrls(pagination_candidates(doc, base))

(* ---------------------- scrape_with_pagination ------------------------- *)

\* line 382
StrongNextTokens == {"next", "siguiente", "suivant"}

\* any(pattern in link_text_clean for pattern in [...])
HasStrongNext(text) == \E i \in 1..Len(text) : text[i] \in StrongNextTokens

\* line 376: link.replace(current_url.split('?')[0], '')
\*               .replace(current_url.split('#')[0], '')
StrippedLink(link, cur) ==
    StrReplaceEmpty(StrReplaceEmpty(link, SplitQuery(cur)), SplitFragment(cur))

\* lines 376-384: some anchor whose href attribute is the stripped link has
\* a text with a strong-next token
LooksLikeNext(doc, link, cur) ==
    \E j \in 1..Len(doc) :
        /\ doc[j].kind = "a"
        /\ doc[j].href = StrippedLink(link, cur)
        /\ HasStrongNext(doc[j].text)

\* lines 371-391
SelectNextUrl(doc, cur, links) ==
    IF links = <<>> THEN None
    ELSE IF \E i \in 1..Len(links) : LooksLikeNext(doc, links[i], cur)
    THEN LET i == CHOOSE i \in 1..Len(links) :
                    /\ LooksLikeNext(doc, links[i], cur)
                    /\ \A k \in 1..(i - 1) : ~LooksLikeNext(doc, links[k], cur)
         IN  links[i]
    ELSE links[1]

\* the max_pages arguments of a crawl: int() of --max-pages=N (line 486)
\* takes any integer, zero and the negative ones too
PagesArgs == -1..MaxPagesArg

\* the url argument of the crawl
StartUrl == <<Host, "/list">>

\* result.url of a render of u: u itself, or where a redirect ended
ResultUrls(u) == {u, <<Host, "/about">>}

\* the failures scrape_single_page reports (lines 166-175): a render that
\* did not succeed, and an exception raised while rendering, which line 171
\* catches and turns into a failure result
RenderErrors == {"Failed to scrape URL", "Error during scraping"}

\* the elements the rendered pages of a crawl are built from: links to the
\* next pages, written as relative and as absolute hrefs, a link back to
\* the start page and a form that leads to page 2
PageElements ==
    { Anchor(<<"?page=2">>, <<"next">>, "before", "none"),
      Anchor(<<"?page=3">>, <<"3">>, "none", "none"),
      Anchor(<<Host, "/list", "?page=2">>, <<"next">>, "none", "none"),
      Anchor(<<"/list">>, <<"next", "page">>, "none", "none"),
      Anchor(<<"?page=4">>, <<"load", "more">>, "none", "before"),
      Form(<<"/list">>, "2") }

\* the HTML documents a rendered page of a crawl may hold
PageDocs == SeqsUpTo(PageElements, MaxPageElems)

\* lines 400-457: the combined document, its content parts left out
CombinedResult(results, scraped, maxp) ==
    [success |-> TRUE,
     url |-> StartUrl,
     pagination_info |->
         [pages_scraped |-> scraped,
          urls_scraped |-> [i \in 1..Len(results) |-> results[i].url],
          total_results |-> Len(results)],
     metadata_pagination |->
         [pages_scraped |-> scraped,
          max_pages_requested |-> maxp,
          urls |-> [i \in 1..Len(results) |-> results[i].url]]]

FailureResult(error) == [success |-> FALSE, error |-> error]

\* the loop without its visited test
LoopGuardNoVisited ==
    /\ current_url # None
    /\ pages_scraped < max_pages

\* the loop with its budget test off by one
LoopGuardOneMore ==
    /\ current_url # None
    /\ pages_scraped <= max_pages
    /\ current_url \notin visited_urls

\* the loop without its budget test
LoopGuardNoBudget ==
    /\ current_url # None
    /\ current_url \notin visited_urls

\* line 347 and line 348: the loop goes into its body
LoopGuard ==
    /\ current_url # None
    /\ pages_scraped < max_pages
    /\ current_url \notin visited_urls

\* a dict with no key
EmptyDict == [k \in {} |-> k]

\* no fetch function is running
IdleFetch ==
    /\ fn = "none"
    /\ crawler = None
    /\ aexit_calls = 0
    /\ cleanup_logged = 0
    /\ escaped = FALSE
    /\ pending = None

\* line 396
SleepGuard(next_url, scraped, maxp) ==
    next_url # None /\ scraped < maxp - 1

Init ==
    /\ pc = "start"
    /\ CRAWL4AI_AVAILABLE \in BOOLEAN
    /\ max_pages \in PagesArgs
    /\ visited_urls = {}
    /\ all_results = <<>>
    /\ current_url = StartUrl
    /\ pages_scraped = 0
    /\ result = None
    /\ html = <<>>
    /\ base_url = None
    /\ pagination_links = <<>>
    /\ fetch_log = <<>>
    /\ slept = FALSE
    /\ IdleFetch
    /\ combined_json = EmptyDict

\* lines 335-339
Unavailable ==
    /\ pc = "start"
    /\ UNCHANGED <<fetchVars, combined_json>>
    /\ ~CRAWL4AI_AVAILABLE
    /\ result' = FailureResult("Crawl4AI is not installed")
    /\ pc' = "done"
    /\ UNCHANGED <<CRAWL4AI_AVAILABLE, max_pages, visited_urls, all_results,
                   current_url, pages_scraped, html, base_url,
                   pagination_links, fetch_log, slept>>

\* lines 341-346
Start ==
    /\ pc = "start"
    /\ UNCHANGED <<fetchVars, combined_json>>
    /\ CRAWL4AI_AVAILABLE
    /\ visited_urls' = {}
    /\ all_results' = <<>>
    /\ current_url' = StartUrl
    /\ pages_scraped' = 0
    /\ pc' = "loop"
    /\ UNCHANGED <<CRAWL4AI_AVAILABLE, max_pages, result, html, base_url,
                   pagination_links, fetch_log, slept>>

\* lines 347-355: into the loop body, up to the await of the render.  The
\* previous iteration's page and detector output are dead from here on.
LoopEnter ==
    /\ pc = "loop"
    /\ UNCHANGED <<fetchVars, combined_json>>
    /\ LoopGuard
    /\ visited_urls' = visited_urls \cup {current_url}
    /\ fetch_log' = Append(fetch_log, current_url)
    /\ html' = <<>>
    /\ base_url' = None
    /\ pagination_links' = <<>>
    /\ pc' = "rendering"
    /\ UNCHANGED <<CRAWL4AI_AVAILABLE, max_pages, all_results, current_url,
                   pages_scraped, result, slept>>

\* lines 347-349 and 400-457: out of the loop, combine and return
LoopExit ==
    /\ pc = "loop"
    /\ UNCHANGED <<fetchVars, combined_json>>
    /\ ~LoopGuard
    /\ result' = CombinedResult(all_results, pages_scraped, max_pages)
    /\ pc' = "done"
    /\ UNCHANGED <<CRAWL4AI_AVAILABLE, max_pages, visited_urls, all_results,
                   current_url, pages_scraped, html, base_url,
                   pagination_links, fetch_log, slept>>

\* a failed render that always breaks out of the loop, on page 1 too
RenderFailBreaks(error) ==
    /\ pc = "rendering"
    /\ UNCHANGED <<fetchVars, combined_json>>
    /\ result' = CombinedResult(all_results, pages_scraped, max_pages)
    /\ pc' = "done"
    /\ slept' = FALSE
    /\ UNCHANGED <<CRAWL4AI_AVAILABLE, max_pages, visited_urls, all_results,
                   current_url, pages_scraped, html, base_url,
                   pagination_links, fetch_log>>

\* a failed render that always returns the failure, on later pages too
RenderFailReturns(error) ==
    /\ pc = "rendering"
    /\ UNCHANGED <<fetchVars, combined_json>>
    /\ result' = FailureResult(error)
    /\ pc' = "done"
    /\ slept' = FALSE
    /\ UNCHANGED <<CRAWL4AI_AVAILABLE, max_pages, visited_urls, all_results,
                   current_url, pages_scraped, html, base_url,
                   pagination_links, fetch_log>>

\* lines 355-362 and 400-457: the render reports a failure
RenderFail(error) ==
    /\ pc = "rendering"
    /\ UNCHANGED <<fetchVars, combined_json>>
    /\ result' = IF pages_scraped = 0
                 THEN FailureResult(error)
                 ELSE CombinedResult(all_results, pages_scraped, max_pages)
    /\ pc' = "done"
    /\ slept' = FALSE
    /\ UNCHANGED <<CRAWL4AI_AVAILABLE, max_pages, visited_urls, all_results,
                   current_url, pages_scraped, html, base_url,
                   pagination_links, fetch_log>>

\* lines 355-398: the render returns a page with HTML doc and address u
RenderOk(doc, u) ==
    /\ pc = "rendering"
    /\ UNCHANGED <<fetchVars, combined_json>>
    /\ all_results' = Append(all_results, [url |-> u])
    /\ pages_scraped' = pages_scraped + 1
    /\ html' = doc
    /\ base_url' = current_url
    /\ \E links \in {find_pagination_links(doc, current_url)} :
       \E next_url \in {SelectNextUrl(doc, current_url, links)} :
           /\ pagination_links' = links
           /\ current_url' = next_url
           /\ pc' = IF SleepGuard(next_url, pages_scraped + 1, max_pages)
                    THEN "sleeping" ELSE "loop"
    /\ slept' = FALSE
    /\ UNCHANGED <<CRAWL4AI_AVAILABLE, max_pages, visited_urls, result,
                   fetch_log>>

\* line 398: asyncio.sleep(1) returns
Sleep ==
    /\ pc = "sleeping"
    /\ UNCHANGED <<fetchVars, combined_json>>
    /\ slept' = TRUE
    /\ pc' = "loop"
    /\ UNCHANGED <<CRAWL4AI_AVAILABLE, max_pages, visited_urls, all_results,
                   current_url, pages_scraped, result, html, base_url,
                   pagination_links, fetch_log>>

Next ==
    \/ Unavailable
    \/ Start
    \/ LoopEnter
    \/ LoopExit
    \/ \E error \in RenderErrors : RenderFail(error)
    \/ \E doc \in PageDocs : \E u \in ResultUrls(current_url) :
           RenderOk(doc, u)
    \/ Sleep

Spec == Init /\ [][Next]_vars

\* the crawl whose renderer invocations (line 355) and delays (line 398)
\* return: a step that can be taken is taken
FairSpec == Spec /\ WF_vars(Next)

(* -------------- find_pagination_links on its own inputs ---------------- *)

\* the HTML documents the detector is checked on
DetectorDocs == SeqsUpTo(Elements, MaxElems)

InitDetect ==
    /\ pc = "input"
    /\ html \in DetectorDocs
    /\ base_url \in BaseUrls
    /\ pagination_links = <<>>
    /\ CRAWL4AI_AVAILABLE = TRUE
    /\ max_pages = 0
    /\ visited_urls = {}
    /\ all_results = <<>>
    /\ current_url = None
    /\ pages_scraped = 0
    /\ result = None
    /\ fetch_log = <<>>
    /\ slept = FALSE
    /\ IdleFetch
    /\ combined_json = EmptyDict

\* a call find_pagination_links(html, base_url)
Detect ==
    /\ pc = "input"
    /\ UNCHANGED <<fetchVars, combined_json>>
    /\ pagination_links' = find_pagination_links(html, base_url)
    /\ pc' = "detected"
    /\ UNCHANGED <<CRAWL4AI_AVAILABLE, max_pages, visited_urls, all_results,
                   current_url, pages_scraped, result, html, base_url,
                   fetch_log, slept>>

NextDetect == Detect

SpecDetect == InitDetect /\ [][NextDetect]_vars

(* ----------------- scrape_single_page and scrape_url ------------------- *)

\* JSON values: a scalar with its text, or a list of values
Scalar(a) == [kind |-> "scalar", atom |-> a, items |-> <<>>]

List(vs) == [kind |-> "list", atom |-> "", items |-> vs]

\* result.extracted_content of a render: nothing, a JSON object, a JSON
\* array, and a text that is no JSON
ExtractedContents == {"", "{\"k\": \"a\"}", "[\"a\"]", "not json"}

\* json.JSONDecodeError is not raised
IsJson(content) == content \in {"{\"k\": \"a\"}", "[\"a\"]"}

json_loads(content) ==
    IF content = "{\"k\": \"a\"}"
    THEN "k" :> Scalar("a")
    ELSE List(<<Scalar("a")>>)

\* lines 145-150
structured_data(content) ==
    IF content = ""
    THEN EmptyDict
    ELSE IF IsJson(content)
         THEN json_loads(content)
         ELSE "extracted_content" :> Scalar(content)

\* lines 152-165, the dict of a successful render with the fields the
\* crawl reads
PageResult(doc, u, content) ==
    [success |-> TRUE,
     data |-> [html |-> doc, url |-> u, json |-> structured_data(content)]]

\* the two functions have the same body
FetchFunctions == {"scrape_single_page", "scrape_url"}

\* a call of one of the two functions
InitFetch ==
    /\ pc = "f_start"
    /\ fn \in FetchFunctions
    /\ CRAWL4AI_AVAILABLE \in BOOLEAN
    /\ current_url = StartUrl
    /\ crawler = None
    /\ aexit_calls = 0
    /\ cleanup_logged = 0
    /\ escaped = FALSE
    /\ pending = None
    /\ result = None
    /\ max_pages = 1
    /\ visited_urls = {}
    /\ all_results = <<>>
    /\ pages_scraped = 0
    /\ html = <<>>
    /\ base_url = None
    /\ pagination_links = <<>>
    /\ fetch_log = <<>>
    /\ slept = FALSE
    /\ combined_json = EmptyDict

\* what a step of the fetch function leaves alone
FetchFrame ==
    UNCHANGED <<fn, CRAWL4AI_AVAILABLE, current_url, max_pages, visited_urls,
                all_results, pages_scraped, html, base_url,
                pagination_links, fetch_log, slept, combined_json>>

\* lines 111-115
FetchUnavailable ==
    /\ pc = "f_start"
    /\ ~CRAWL4AI_AVAILABLE
    /\ result' = FailureResult("Crawl4AI is not installed")
    /\ pc' = "f_done"
    /\ UNCHANGED <<crawler, aexit_calls, cleanup_logged, escaped, pending>>
    /\ FetchFrame

\* lines 117-126: the constructor returns the handle
Construct ==
    /\ pc = "f_start"
    /\ CRAWL4AI_AVAILABLE
    /\ crawler' = <<"AsyncWebCrawler">>
    /\ pc' = "f_enter"
    /\ UNCHANGED <<aexit_calls, cleanup_logged, escaped, pending, result>>
    /\ FetchFrame

\* lines 117-126 and 171-175: the constructor raises, crawler stays None
ConstructRaises ==
    /\ pc = "f_start"
    /\ CRAWL4AI_AVAILABLE
    /\ pending' = FailureResult("Error during scraping")
    /\ pc' = "f_finally"
    /\ UNCHANGED <<crawler, aexit_calls, cleanup_logged, escaped, result>>
    /\ FetchFrame

\* line 128
Enter ==
    /\ pc = "f_enter"
    /\ pc' = "f_run"
    /\ UNCHANGED <<crawler, aexit_calls, cleanup_logged, escaped, pending,
                   result>>
    /\ FetchFrame

\* lines 128 and 171-175: __aenter__ raises
EnterRaises ==
    /\ pc = "f_enter"
    /\ pending' = FailureResult("Error during scraping")
    /\ pc' = "f_finally"
    /\ UNCHANGED <<crawler, aexit_calls, cleanup_logged, escaped, result>>
    /\ FetchFrame

\* lines 131-165: the render succeeds
RunSuccess(doc, u, content) ==
    /\ pc = "f_run"
    /\ pending' = PageResult(doc, u, content)
    /\ pc' = "f_finally"
    /\ UNCHANGED <<crawler, aexit_calls, cleanup_logged, escaped, result>>
    /\ FetchFrame

\* lines 131-142 and 166-175: the render reports a failure, or arun raises
RunFails(error) ==
    /\ pc = "f_run"
    /\ pending' = FailureResult(error)
    /\ pc' = "f_finally"
    /\ UNCHANGED <<crawler, aexit_calls, cleanup_logged, escaped, result>>
    /\ FetchFrame

\* lines 176-178: no handle to release
FinallyNoHandle ==
    /\ pc = "f_finally"
    /\ crawler = None
    /\ result' = pending
    /\ pc' = "f_done"
    /\ UNCHANGED <<crawler, aexit_calls, cleanup_logged, escaped, pending>>
    /\ FetchFrame

\* lines 176-180: __aexit__ returns
Exit ==
    /\ pc = "f_finally"
    /\ crawler # None
    /\ aexit_calls' = aexit_calls + 1
    /\ result' = pending
    /\ pc' = "f_done"
    /\ UNCHANGED <<crawler, cleanup_logged, escaped, pending>>
    /\ FetchFrame

\* a finally block whose __aexit__ call stands outside a try statement
ExitRaisesUncaught ==
    /\ pc = "f_finally"
    /\ crawler # None
    /\ aexit_calls' = aexit_calls + 1
    /\ escaped' = TRUE
    /\ pc' = "f_done"
    /\ UNCHANGED <<crawler, cleanup_logged, pending, result>>
    /\ FetchFrame

\* lines 176-182: __aexit__ raises, the error is printed to stderr
ExitRaises ==
    /\ pc = "f_finally"
    /\ crawler # None
    /\ aexit_calls' = aexit_calls + 1
    /\ cleanup_logged' = cleanup_logged + 1
    /\ result' = pending
    /\ pc' = "f_done"
    /\ UNCHANGED <<crawler, escaped, pending>>
    /\ FetchFrame

NextFetch ==
    \/ FetchUnavailable
    \/ Construct
    \/ ConstructRaises
    \/ Enter
    \/ EnterRaises
    \/ \E doc \in PageDocs : \E u \in ResultUrls(current_url) :
           \E content \in ExtractedContents : RunSuccess(doc, u, content)
    \/ \E error \in RenderErrors : RunFails(error)
    \/ FinallyNoHandle
    \/ Exit
    \/ ExitRaises

SpecFetch == InitFetch /\ [][NextFetch]_vars

(* ------------- the combined structured data (lines 419-436) ------------ *)

\* the keys of the pages' structured data
Keys == {"k", "m"}

\* the values of a key: two scalars and a list
JsonValues == {Scalar("a"), Scalar("b"), List(<<Scalar("a")>>)}

\* the JSON objects over these keys and values
PageDicts == UNION {[D -> JsonValues] : D \in SUBSET Keys}

\* what line 147 makes the structured data of a page: a JSON object, or
\* another JSON value when the extracted content is no object
PageJsons == PageDicts \cup {List(<<Scalar("a")>>)}

\* the pages a crawl has collected when it reaches line 400
CollectedPages == {[url |-> StartUrl, json |-> j] : j \in PageJsons}

\* the value has the method items (line 422)
IsDict(json) == "kind" \notin DOMAIN json

\* lines 423-427: the key exists already
MergeValue(old, value) ==
    List(Append(IF old.kind = "list" THEN old.items ELSE <<old>>, value))

\* lines 422-429 for one page: the keys of a dict are distinct, so the
\* iterations of the inner loop do not depend on each other
MergePage(combined, json) ==
    [key \in DOMAIN combined \cup DOMAIN json |->
        IF key \in DOMAIN json
        THEN IF key \in DOMAIN combined
             THEN MergeValue(combined[key], json[key])
             ELSE json[key]
        ELSE combined[key]]

RECURSIVE MergeFrom(_, _, _)
\* lines 421-429 from page i on
MergeFrom(combined, results, i) ==
    IF i > Len(results)
    THEN combined
    ELSE MergeFrom(MergePage(combined, results[i].json), results, i + 1)

\* lines 432-436
PaginationInfo(results, scraped) ==
    [pages_scraped |-> scraped,
     urls_scraped |-> [i \in 1..Len(results) |-> results[i].url],
     total_results |-> Len(results)]

\* lines 420-436
CombinedJson(results, scraped) ==
    LET merged == MergeFrom(EmptyDict, results, 1)
    IN  [key \in DOMAIN merged \cup {"pagination_info"} |->
            IF key = "pagination_info"
            THEN PaginationInfo(results, scraped)
            ELSE merged[key]]

\* scrape_with_pagination at line 400, the loop left with these pages
InitMerge ==
    /\ pc = "m_input"
    /\ all_results \in SeqsUpTo(CollectedPages, MaxMergePages)
    /\ pages_scraped = Len(all_results)
    /\ max_pages = Len(all_results)
    /\ CRAWL4AI_AVAILABLE = TRUE
    /\ visited_urls = {}
    /\ current_url = None
    /\ result = None
    /\ html = <<>>
    /\ base_url = None
    /\ pagination_links = <<>>
    /\ fetch_log = <<>>
    /\ slept = FALSE
    /\ IdleFetch
    /\ combined_json = EmptyDict

\* lines 400-457
CombineOk ==
    /\ pc = "m_input"
    /\ \A i \in 1..Len(all_results) : IsDict(all_results[i].json)
    /\ combined_json' = CombinedJson(all_results, pages_scraped)
    /\ result' = CombinedResult(all_results, pages_scraped, max_pages)
    /\ pc' = "m_done"
    /\ UNCHANGED <<CRAWL4AI_AVAILABLE, max_pages, visited_urls, all_results,
                   current_url, pages_scraped, html, base_url,
                   pagination_links, fetch_log, slept, fetchVars>>

\* lines 422 and 459-463: items() of a value that is no dict raises
CombineRaises ==
    /\ pc = "m_input"
    /\ \E i \in 1..Len(all_results) : ~IsDict(all_results[i].json)
    /\ result' = FailureResult("Error during pagination scraping")
    /\ pc' = "m_done"
    /\ UNCHANGED <<CRAWL4AI_AVAILABLE, max_pages, visited_urls, all_results,
                   current_url, pages_scraped, html, base_url,
                   pagination_links, fetch_log, slept, fetchVars,
                   combined_json>>

NextMerge == CombineOk \/ CombineRaises

SpecMerge == InitMerge /\ [][NextMerge]_vars

(* ------------------------------ claims --------------------------------- *)

Range(seq) == {seq[i] : i \in 1..Len(seq)}

NoDuplicates(seq) ==
    \A i, j \in 1..Len(seq) : i # j => seq[i] # seq[j]

\* C1: in a crawl the visited set is exactly the set of URLs the renderer
\* has been invoked on, a URL is in it while its render is in flight, and no
\* URL is rendered twice, also when the pages link back to each other.
C1_NoUrlFetchedTwice ==
    /\ visited_urls = Range(fetch_log)
    /\ NoDuplicates(fetch_log)
    /\ pc = "rendering" =>
           /\ current_url \in visited_urls
           /\ fetch_log[Len(fetch_log)] = current_url

\* C1 witness: page 2 links back to a page already rendered and the crawl
\* ends there, with budget left.
C1_CycleCut ==
    /\ pc = "done"
    /\ Len(fetch_log) = 2
    /\ current_url \in visited_urls
    /\ pages_scraped < max_pages

\* C2 as stated: once the crawl runs, the number of collected pages never
\* exceeds max_pages, for every max_pages value.
C2_PagesWithinMaxPages ==
    (pc # "start" /\ CRAWL4AI_AVAILABLE) => Len(all_results) <= max_pages

\* C2 as amended: the number of collected pages never exceeds max_pages
\* when max_pages >= 0, is zero when max_pages is negative, and
\* pages_scraped is that number.
C2_PagesWithinBudget ==
    /\ Len(all_results) <= Max(max_pages, 0)
    /\ pages_scraped = Len(all_results)

\* C2 witness: the budget, not the lack of a link, ends a crawl of two
\* pages.
C2_BudgetReached ==
    /\ pc = "done"
    /\ max_pages = 2
    /\ Len(all_results) = max_pages
    /\ current_url # None
    /\ current_url \notin visited_urls

\* C3: when the first render of a crawl fails, the crawl returns the
\* renderer's failure with success false, has collected no page, has built
\* no combined document and has invoked the renderer once.
C3_FirstPageFailure ==
    (pc = "done" /\ fetch_log # <<>> /\ pages_scraped = 0) =>
        /\ result \in {FailureResult(e) : e \in RenderErrors}
        /\ all_results = <<>>
        /\ Len(fetch_log) = 1
        /\ ~ENABLED Next

\* C3 witness: a crawl with max_pages >= 1 whose first render failed.
C3_FirstRenderFailed ==
    /\ pc = "done"
    /\ max_pages >= 1
    /\ Len(fetch_log) = 1
    /\ pages_scraped = 0
    /\ result = FailureResult("Failed to scrape URL")

ConfidenceOf(cands, u) == cands[IndexOfUrl(cands, u)].confidence

\* C5: find_pagination_links never returns the base URL itself, whichever
\* element resolves to it: an anchor href, a button onclick or a form
\* action with a page input.
C5_NeverReturnsBase ==
    pc = "detected" =>
        \A i \in 1..Len(pagination_links) : pagination_links[i] # base_url

\* the anchors of the document whose tag carries rel="next", before or
\* behind the href attribute
RelNextAnchors(doc) ==
    {j \in 1..Len(doc) : doc[j].kind = "a" /\ doc[j].rel # "none"}

\* C6: when the document has one anchor marked rel="next" and the URL it
\* resolves to has a confidence of at least 5, that URL is the first of the
\* detector's output, whatever the attribute order in the tag and whatever
\* the other elements score.
C6_RelNextFirst ==
    (pc = "detected" /\ Cardinality(RelNextAnchors(html)) = 1) =>
        LET j == CHOOSE j \in RelNextAnchors(html) : TRUE
            u == urljoin(base_url, html[j].href)
            cands == pagination_candidates(html, base_url)
        IN  (u \in CandidateUrls(cands) /\ ConfidenceOf(cands, u) >= 5) =>
                (pagination_links # <<>> /\ pagination_links[1] = u)

\* C7: find_pagination_links returns at most 3 URLs, each a candidate of
\* confidence at least 5 and none twice, in order of non-increasing
\* confidence, and no candidate left out with confidence at least 5 has a
\* strictly higher confidence than a returned one.
C7_TopThreeRanked ==
    pc = "detected" =>
        LET cands == pagination_candidates(html, base_url)
            links == pagination_links
        IN  /\ Len(links) <= 3
            /\ NoDuplicates(links)
            /\ \A i \in 1..Len(links) :
                   /\ links[i] \in CandidateUrls(cands)
                   /\ ConfidenceOf(cands, links[i]) >= 5
            /\ \A i, k \in 1..Len(links) :
                   i < k => ConfidenceOf(cands, links[i])
                                >= ConfidenceOf(cands, links[k])
            /\ \A u \in CandidateUrls(cands) \ Range(links) :
                   ConfidenceOf(cands, u) >= 5 =>
                       \A i \in 1..Len(links) :
                           ConfidenceOf(cands, u)
                               <= ConfidenceOf(cands, links[i])

\* C7 witness: four candidates of different confidence, all at least 5,
\* inserted lowest first; three are returned and the lowest is left out.
C7_FourthLeftOut ==
    /\ pc = "detected"
    /\ Len(pagination_links) = 3
    /\ LET cands == pagination_candidates(html, base_url)
       IN  /\ Len(cands) = 4
           /\ \A i \in 1..4 : cands[i].confidence >= 5
           /\ cands[1].confidence < cands[2].confidence
           /\ cands[2].confidence < cands[3].confidence
           /\ cands[3].confidence < cands[4].confidence
           /\ cands[1].url \notin Range(pagination_links)

\* the document of the C8 scenario: <a href="?page=3">3</a> and
\* <a href="?page=2">2</a> and nothing else
C8_Doc ==
    << Anchor(<<"?page=3">>, <<"3">>, "none", "none"),
       Anchor(<<"?page=2">>, <<"2">>, "none", "none") >>

\* C8 as stated: each of the two URLs has confidence 8 + 5 = 13, both are
\* returned, ?page=3 before ?page=2.
C8_BothAtThirteen ==
    (pc = "detected" /\ html = C8_Doc /\ base_url = <<Host, "/list">>) =>
        /\ pagination_candidates(html, base_url) =
               << [url |-> <<Host, "/list", "?page=3">>, confidence |-> 13],
                  [url |-> <<Host, "/list", "?page=2">>, confidence |-> 13] >>
        /\ pagination_links =
               << <<Host, "/list", "?page=3">>, <<Host, "/list", "?page=2">> >>

\* C8 as amended: against a base URL that neither href resolves to, each of
\* the two URLs has confidence 8 + 3 + 5 = 16 (the texts 2 and 3 are page
\* numbers in 2..10), both are returned, ?page=3 before ?page=2.
C8_BothAtSixteen ==
    (pc = "detected" /\ html = C8_Doc /\ base_url = <<Host, "/list">>) =>
        /\ pagination_candidates(html, base_url) =
               << [url |-> <<Host, "/list", "?page=3">>, confidence |-> 16],
                  [url |-> <<Host, "/list", "?page=2">>, confidence |-> 16] >>
        /\ pagination_links =
               << <<Host, "/list", "?page=3">>, <<Host, "/list", "?page=2">> >>

\* C8 witness: the detector has run on the scenario's document.
C8_ScenarioDetected ==
    /\ pc = "detected"
    /\ html = C8_Doc
    /\ base_url = <<Host, "/list">>
    /\ Len(pagination_links) = 2

\* C9: every render after the first one of a crawl is preceded by a delay
\* waited after the render before it returned.
C9_DelayBeforeLaterFetch ==
    (pc = "rendering" /\ Len(fetch_log) >= 2) => slept

\* the anchors of the document whose href resolves to the URL link, as a
\* relative or as an absolute href
AnchorsOf(doc, base, link) ==
    {j \in 1..Len(doc) : doc[j].kind = "a" /\ urljoin(base, doc[j].href) = link}

\* whether some anchor resolving to link has a strong-next text
StrongCandidate(doc, base, link) ==
    \E j \in AnchorsOf(doc, base, link) : HasStrongNext(doc[j].text)

\* the next URL C10 describes
C10_ClaimedNext(doc, base, links) ==
    IF links = <<>> THEN None
    ELSE IF \E i \in 1..Len(links) : StrongCandidate(doc, base, links[i])
    THEN LET i == CHOOSE i \in 1..Len(links) :
                    /\ StrongCandidate(doc, base, links[i])
                    /\ \A k \in 1..(i - 1) :
                           ~StrongCandidate(doc, base, links[k])
         IN  links[i]
    ELSE links[1]

\* C10: after a successful render the next URL is the first detector
\* candidate, in rank order, one of whose anchors (relative or absolute
\* href) has a strong-next text, else the highest-ranked candidate, and
\* none exactly when the detector's list is empty.
C10_NextIsFirstStrongCandidate ==
    (pc \in {"loop", "sleeping"} /\ pages_scraped > 0) =>
        /\ current_url = C10_ClaimedNext(html, base_url, pagination_links)
        /\ (current_url = None) <=> (pagination_links = <<>>)

\* C11: in scrape_single_page and scrape_url a handle that was created has
\* its __aexit__ invoked exactly once before the function returns, whether
\* the render succeeded, reported a failure, or __aenter__ or arun raised;
\* __aexit__ is never invoked twice, and not at all when no handle exists.
\* When __aexit__ itself raises, no exception leaves the function and the
\* function returns the value its return statement held.
C11_HandleReleasedOnce ==
    /\ aexit_calls <= 1
    /\ crawler = None => aexit_calls = 0
    /\ cleanup_logged <= aexit_calls
    /\ (pc = "f_done" /\ crawler # None) =>
           /\ aexit_calls = 1
           /\ ~escaped
           /\ result = pending

\* a render succeeded, the release of its handle raised and was logged, and
\* the page was returned all the same
C11_ReleaseFailedAfterRender ==
    /\ pc = "f_done"
    /\ crawler # None
    /\ aexit_calls = 1
    /\ cleanup_logged = 1
    /\ result = pending
    /\ result.success

\* __aenter__ raised and the handle was released before the failure was
\* returned
C11_ReleasedAfterEnterRaised ==
    /\ pc = "f_done"
    /\ crawler # None
    /\ aexit_calls = 1
    /\ result = FailureResult("Error during scraping")

\* the values the pages hold for a key, in page order
ValuesOf(results, key) ==
    LET having == SelectSeq(results, LAMBDA r : key \in DOMAIN r.json)
    IN  [i \in 1..Len(having) |-> having[i].json[key]]

\* C12: in the combined document data.json holds the keys of the pages and
\* pagination_info; a key of exactly one page has that page's value, a key
\* of several pages has the list of the pages' values, one entry per page in
\* page order, also when a page's value is itself a list; pagination_info
\* is the injected record.
C12_ShallowMerge ==
    (pc = "m_done" /\ result.success) =>
        /\ \A key \in Keys :
              LET values == ValuesOf(all_results, key)
              IN  /\ Len(values) = 0 => key \notin DOMAIN combined_json
                  /\ Len(values) = 1 => combined_json[key] = values[1]
                  /\ Len(values) >= 2 => combined_json[key] = List(values)
        /\ combined_json["pagination_info"]
               = PaginationInfo(all_results, pages_scraped)

\* C13: when every renderer invocation and every delay returns, a crawl
\* ends with a result; it never invokes the renderer more than max_pages
\* times, whatever the pages link to and whichever renders fail, and not
\* at all when max_pages <= 0.
C13_CrawlTerminates ==
    /\ <>(pc = "done")
    /\ [](Len(fetch_log) <= Max(max_pages, 0))
    /\ [](pc = "done" => result.success \in BOOLEAN)

\* a crawl with max_pages = 3 has ended after three renderer invocations,
\* the last of them a failure
C13_EndedAtThirdFetch ==
    /\ pc = "done"
    /\ max_pages = 3
    /\ Len(fetch_log) = 3
    /\ Len(all_results) = 2
    /\ result.success

\* a crawl with max_pages <= 0 has ended without a fetch
C13_EndedWithoutFetch ==
    /\ pc = "done"
    /\ CRAWL4AI_AVAILABLE
    /\ max_pages <= 0
    /\ fetch_log = <<>>

====
